---- MODULE Spec2Model ----
(***************************************************************************)
(* A model of the trajectory pipeline (trainingDataCreator.py) and of the  *)
(* graph convolution (model.py) of Multi-Class-Social-STGCNN.              *)
(*                                                                         *)
(* Three specifications share the module:                                  *)
(*   SpecConvert  one call of convertData, one loop iteration per step;    *)
(*   SpecCreate   successive calls of createTrainingData against one       *)
(*                destination, one file-system operation per step;         *)
(*   SpecGcn      one call of ConvTemporalGraphical.forward.               *)
(*                                                                         *)
(* Floats are exact rationals <<n, d>> with d > 0; <<0, 0>> is NaN, for    *)
(* which every comparison is false, as for an IEEE NaN.                    *)
(***************************************************************************)
EXTENDS Integers, Sequences, FiniteSets, TLC

(* ------------------------------------------------------------------ *)
(* Bounds of the model                                                *)
(* ------------------------------------------------------------------ *)

\* Longest row sequence handed to convertData by SpecConvert.
MaxRows == 3

\* Largest samplingRate argument.
MaxRate == 2

\* How many times createTrainingData is invoked in a behaviour.
MaxRuns == 3

\* Longest time axis and largest node count of the tensors given to the
\* graph convolution.
MaxTime == 2

MaxNodes == 2

(* ------------------------------------------------------------------ *)
(* Floats                                                             *)
(* ------------------------------------------------------------------ *)

NaN == <<0, 0>>

Flt(i) == <<i, 1>>

isnan(q) == q[2] = 0

\* a / b for floats; b is never zero where the code divides.
FDiv(a, b) ==
    IF isnan(a) \/ isnan(b) THEN NaN
    ELSE IF b[1] < 0 THEN <<(0 - a[1]) * b[2], a[2] * (0 - b[1])>>
    ELSE <<a[1] * b[2], a[2] * b[1]>>

FMul(a, b) == IF isnan(a) \/ isnan(b) THEN NaN ELSE <<a[1] * b[1], a[2] * b[2]>>

FAdd(a, b) ==
    IF isnan(a) \/ isnan(b) THEN NaN ELSE <<a[1] * b[2] + b[1] * a[2], a[2] * b[2]>>

FSub(a, b) ==
    IF isnan(a) \/ isnan(b) THEN NaN ELSE <<a[1] * b[2] - b[1] * a[2], a[2] * b[2]>>

\* a <= b, a >= b, a > b: false as soon as one side is NaN.
FLe(a, b) == ~isnan(a) /\ ~isnan(b) /\ a[1] * b[2] <= b[1] * a[2]

FGe(a, b) == FLe(b, a)

FGt(a, b) == ~isnan(a) /\ ~isnan(b) /\ a[1] * b[2] > b[1] * a[2]

\* Equality of float values (1/2 = 2/4; NaN equals nothing).
FEq(a, b) == FLe(a, b) /\ FLe(b, a)

\* math.floor of a defined float.
FFloor(a) ==
    IF a[1] >= 0 THEN a[1] \div a[2] ELSE 0 - ((a[2] - 1 - a[1]) \div a[2])

(* ------------------------------------------------------------------ *)
(* Inputs                                                             *)
(* ------------------------------------------------------------------ *)

\* Python's None where a label list is expected: a value no label list equals.
None == {"None"}

\* The category labels of the annotation files.
Labels == {"Pedestrian", "Biker"}

\* The labels argument: None, or a list of labels (its element set).
LabelArgs == {None} \cup {{"Pedestrian"}, {"Pedestrian", "Biker"}}

\* A raw annotation row: the ten fields of a line, the three ignored ones
\* left out; the label is quoted in the file.
RawRow(ped, x0, y0, x1, y1, fr, lab) ==
    [ped_id |-> ped, x_min |-> x0, y_min |-> y0, x_max |-> x1, y_max |-> y1,
     frame |-> fr, label |-> [quoted |-> TRUE, text |-> lab]]

\* The rows the row sequences are made of: both labels, centres inside, on
\* and outside the border, one undefined pedestrian id.
RowPool ==
    { RawRow(Flt(1), 0, 0, 2, 2, 0, "Pedestrian"),
      RawRow(Flt(2), 3, 2, 5, 4, 1, "Biker"),
      RawRow(Flt(1), 1, 1, 2, 2, 2, "Pedestrian"),
      RawRow(NaN,    2, 2, 2, 2, 3, "Biker") }

SeqsUpTo(S, n) == UNION { [1..k -> S] : k \in 0..n }

\* (testSplit, validSplit) pairs, their sum at most 1; <<3, 20>> is the
\* default 0.15.
SplitPairs ==
    { << <<0, 1>>, <<0, 1>> >>, << <<3, 20>>, <<3, 20>> >>, << <<0, 1>>, <<1, 3>> >>,
      << <<1, 2>>, <<1, 3>> >>, << <<1, 2>>, <<1, 2>> >>, << <<1, 1>>, <<0, 1>> >> }

\* config.annotationXScale, config.annotationYScale, config.fractionToRemove.
Configs ==
    { [annotationXScale |-> 1, annotationYScale |-> 1, fractionToRemove |-> 4],
      [annotationXScale |-> 2, annotationYScale |-> 1, fractionToRemove |-> 2] }

(* ------------------------------------------------------------------ *)
(* convertData and its helpers                                        *)
(* ------------------------------------------------------------------ *)

\* rowConversion: (frame, ped_id, centre x, centre y, unquoted label).
rowConversion(row) ==
    << Flt(row.frame), row.ped_id,
       FDiv(FAdd(Flt(row.x_min), Flt(row.x_max)), Flt(2)),
       FDiv(FAdd(Flt(row.y_min), Flt(row.y_max)), Flt(2)),
       row.label.text >>

\* scaleCoordinates of a (frame, ped_id, x, y) row.
scaleCoordinates(row, cfg) ==
    << row[1], row[2], FDiv(row[3], Flt(cfg.annotationXScale)),
       FDiv(row[4], Flt(cfg.annotationYScale)) >>

\* int(math.floor(len(data) * split)).
SplitFloor(n, split) == FFloor(FMul(Flt(n), split))

maxTestFrameOf(n, tSplit) == SplitFloor(n, tSplit)

MutMaxValidFrameOf(n, tSplit, vSplit) == SplitFloor(n, vSplit)

maxValidFrameOf(n, tSplit, vSplit) == maxTestFrameOf(n, tSplit) + SplitFloor(n, vSplit)

\* The partition a kept row goes to, by the running frame counter.
MutPartitionOf(fr, maxTest, maxValid) ==
    IF fr % 2 = 0 /\ fr <= maxTest THEN "test"
    ELSE IF fr <= maxValid THEN "val"
    ELSE "train"

PartitionOf(fr, maxTest, maxValid) ==
    IF fr <= maxTest THEN "test"
    ELSE IF fr <= maxValid THEN "val"
    ELSE "train"

\* Whether the category filter keeps a converted row.
Kept(crow, labs) == labs = None \/ crow[5] \in labs

\* The row as stored: windowed frame, then ped_id, x, y.
Windowed(crow, rate) == << FFloor(FDiv(crow[1], Flt(rate))), crow[2], crow[3], crow[4] >>

\* The empty buckets of lines 31-40.  With labels the held-out buckets are
\* keyed by label, then by offset.
EmptyBuckets(rate) == [i \in 0..(rate - 1) |-> <<>>]

EmptyTest(rate, labs) ==
    IF labs = None THEN EmptyBuckets(rate)
    ELSE [l \in labs |-> EmptyBuckets(rate)]

\* The border filter of the training and validation buckets (scaled bounds).
MutInScaledBorder(row, mx, my, cfg) ==
    LET kx == FMul(Flt(cfg.annotationXScale), Flt(cfg.fractionToRemove))
    IN  /\ FGe(row[3], FDiv(mx, kx))
        /\ FLe(row[3], FSub(mx, FDiv(mx, kx)))

InScaledBorder(row, mx, my, cfg) ==
    LET kx == FMul(Flt(cfg.annotationXScale), Flt(cfg.fractionToRemove))
        ky == FMul(Flt(cfg.annotationYScale), Flt(cfg.fractionToRemove))
    IN  /\ FGe(row[3], FDiv(mx, kx))
        /\ FLe(row[3], FSub(mx, FDiv(mx, kx)))
        /\ FGe(row[4], FDiv(my, ky))
        /\ FLe(row[4], FSub(my, FDiv(my, ky)))

\* The border filter of the held-out buckets (unscaled bounds).
InRawBorder(row, mx, my, cfg) ==
    LET k == Flt(cfg.fractionToRemove)
    IN  /\ FGe(row[3], FDiv(mx, k))
        /\ FLe(row[3], FSub(mx, FDiv(mx, k)))
        /\ FGe(row[4], FDiv(my, k))
        /\ FLe(row[4], FSub(my, FDiv(my, k)))

\* The state of the scan: the locals of convertData.
ScanInit(rate, labs) ==
    [frame |-> 0, maxX |-> Flt(0), maxY |-> Flt(0),
     trainingData |-> EmptyBuckets(rate),
     testData |-> EmptyTest(rate, labs),
     validationData |-> EmptyBuckets(rate)]

MutScanRow(s, raw, rate, labs, maxTest, maxValid, cfg) ==
    LET crow == rowConversion(raw)
        kept == Kept(crow, labs)
        mx   == IF kept /\ FGt(crow[3], s.maxX) THEN crow[3] ELSE s.maxX
        my   == IF kept /\ FGt(crow[4], s.maxY) THEN crow[4] ELSE s.maxY
        row  == Windowed(crow, rate)
        part == PartitionOf(s.frame, maxTest, maxValid)
        key  == s.frame % rate
        t    == [s EXCEPT !.maxX = mx, !.maxY = my, !.frame = s.frame + 1]
    IN  IF ~kept THEN t
        ELSE IF part = "test" THEN
            IF labs = None
            THEN [t EXCEPT !.testData[key] = Append(@, row)]
            ELSE [t EXCEPT !.testData[crow[5]][key] = Append(@, row)]
        ELSE IF part = "val"
            THEN [t EXCEPT !.validationData[key] = Append(@, scaleCoordinates(row, cfg))]
        ELSE [t EXCEPT !.trainingData[key] = Append(@, scaleCoordinates(row, cfg))]

\* One iteration of the loop over the rows (lines 41-61).
ScanRow(s, raw, rate, labs, maxTest, maxValid, cfg) ==
    LET crow == rowConversion(raw)
        mx   == IF FGt(crow[3], s.maxX) THEN crow[3] ELSE s.maxX
        my   == IF FGt(crow[4], s.maxY) THEN crow[4] ELSE s.maxY
        row  == Windowed(crow, rate)
        part == PartitionOf(s.frame, maxTest, maxValid)
        key  == s.frame % rate
        t    == [s EXCEPT !.maxX = mx, !.maxY = my, !.frame = s.frame + 1]
    IN  IF ~Kept(crow, labs) THEN t
        ELSE IF part = "test" THEN
            IF labs = None
            THEN [t EXCEPT !.testData[key] = Append(@, row)]
            ELSE [t EXCEPT !.testData[crow[5]][key] = Append(@, row)]
        ELSE IF part = "val"
            THEN [t EXCEPT !.validationData[key] = Append(@, scaleCoordinates(row, cfg))]
        ELSE [t EXCEPT !.trainingData[key] = Append(@, scaleCoordinates(row, cfg))]

\* The filters after the scan (lines 63-87).
FilterScaled(buckets, mx, my, cfg) ==
    [i \in DOMAIN buckets |->
        SelectSeq(buckets[i], LAMBDA row : InScaledBorder(row, mx, my, cfg))]

FilterRaw(buckets, mx, my, cfg) ==
    [i \in DOMAIN buckets |->
        SelectSeq(buckets[i], LAMBDA row : InRawBorder(row, mx, my, cfg))]

MutFilterBuckets(s, labs, cfg) ==
    [s EXCEPT
       !.trainingData = FilterScaled(s.trainingData, s.maxX, s.maxY, cfg),
       !.testData = IF labs = None
                    THEN FilterRaw(s.testData, s.maxX, s.maxY, cfg)
                    ELSE [l \in labs |-> FilterRaw(s.testData[l], s.maxX, s.maxY, cfg)],
       !.validationData = FilterRaw(s.validationData, s.maxX, s.maxY, cfg)]

FilterBuckets(s, labs, cfg) ==
    [s EXCEPT
       !.trainingData = FilterScaled(s.trainingData, s.maxX, s.maxY, cfg),
       !.testData = IF labs = None
                    THEN FilterRaw(s.testData, s.maxX, s.maxY, cfg)
                    ELSE [l \in labs |-> FilterRaw(s.testData[l], s.maxX, s.maxY, cfg)],
       !.validationData = FilterScaled(s.validationData, s.maxX, s.maxY, cfg)]

RECURSIVE ScanFrom(_, _, _, _, _, _, _)
ScanFrom(s, rows, rate, labs, maxTest, maxValid, cfg) ==
    IF s.frame >= Len(rows) THEN s
    ELSE ScanFrom(ScanRow(s, rows[s.frame + 1], rate, labs, maxTest, maxValid, cfg),
                  rows, rate, labs, maxTest, maxValid, cfg)

\* "for label in labels" (line 31) raises TypeError when labels is None.
LabelsIterable(labs) == labs # None

\* convertData as a function of its arguments: the three bucket collections,
\* or the error it raises.
convertData(rows, tSplit, vSplit, rate, labs, cfg) ==
    LET maxTest  == maxTestFrameOf(Len(rows), tSplit)
        maxValid == maxValidFrameOf(Len(rows), tSplit, vSplit)
    IN  IF ~LabelsIterable(labs) THEN [raised |-> "TypeError"]
        ELSE LET s == FilterBuckets(
                        ScanFrom(ScanInit(rate, labs), rows, rate, labs,
                                 maxTest, maxValid, cfg), labs, cfg)
             IN  [raised |-> "nothing", trainingData |-> s.trainingData,
                  testData |-> s.testData, validationData |-> s.validationData]

(* ------------------------------------------------------------------ *)
(* createTrainingData                                                 *)
(* ------------------------------------------------------------------ *)

\* The invocations: SpecCreate runs them one after the other.
Procs == {1, 2}

\* The recordings under inputFolder (location/video), with their rows: one
\* long enough to have validation rows under the default 0.15 splits, one
\* short.  The row with the undefined pedestrian id is a "Biker" row.
Videos == <<"bookstore/video0", "gates/video1">>

InputRows(v) ==
    IF v = 1
    THEN << RawRow(Flt(1), 1, 1, 3, 3, 0, "Pedestrian"),
            RawRow(Flt(2), 2, 1, 2, 3, 0, "Pedestrian"),
            RawRow(Flt(1), 1, 2, 3, 2, 1, "Pedestrian"),
            RawRow(NaN,    2, 2, 2, 2, 1, "Biker"),
            RawRow(Flt(1), 0, 0, 8, 8, 2, "Pedestrian"),
            RawRow(Flt(2), 2, 2, 2, 2, 2, "Pedestrian"),
            RawRow(Flt(1), 1, 1, 3, 3, 3, "Pedestrian") >>
    ELSE << RawRow(NaN,    1, 1, 1, 1, 0, "Biker"),
            RawRow(Flt(3), 1, 1, 1, 1, 1, "Pedestrian"),
            RawRow(Flt(3), 0, 0, 4, 4, 2, "Pedestrian") >>

\* The values of the config module at the time of a call.
CreateConfigs ==
    { [samplingRate |-> 15, annotationXScale |-> 1, annotationYScale |-> 1,
       fractionToRemove |-> 4, annotationType |-> "stanford"],
      [samplingRate |-> 15, annotationXScale |-> 1, annotationYScale |-> 1,
       fractionToRemove |-> 2, annotationType |-> "stanford"] }

\* The fingerprint built at lines 105-114.
NewConfig(labs, cfg) ==
    [samplingRate |-> cfg.samplingRate, labels |-> labs,
     inputFolder |-> "in", outputFolder |-> "out",
     annotationXScale |-> cfg.annotationXScale,
     annotationYScale |-> cfg.annotationYScale,
     fractionToRemove |-> cfg.fractionToRemove,
     annotationType |-> cfg.annotationType, complete |-> FALSE]

\* json.dump and json.load of a fingerprint: None is written as null, a
\* label list as a JSON array; everything else is written as it is.
json_dump(c) ==
    [c EXCEPT !.labels = IF c.labels = None THEN [null |-> TRUE, array |-> {}]
                         ELSE [null |-> FALSE, array |-> c.labels]]

json_load(f) ==
    [f EXCEPT !.labels = IF f.labels.null THEN None ELSE f.labels.array]

\* Lines 119-120: the comparison that decides the skip.
MutSameAsPersisted(nc, old) == nc = old

SameAsPersisted(nc, old) == [nc EXCEPT !.complete = TRUE] = old

\* Lines 124-126: the fingerprint written before regenerating.
MutIncompleteOf(nc) == [nc EXCEPT !.complete = TRUE]

IncompleteOf(nc) == [nc EXCEPT !.complete = FALSE]

\* np.any(np.isnan(bucket)).
MutHasNaN(bucket) == \E j \in 1..Len(bucket) : isnan(bucket[j][3]) \/ isnan(bucket[j][4])

HasNaN(bucket) ==
    \E j \in 1..Len(bucket) :
        isnan(bucket[j][2]) \/ isnan(bucket[j][3]) \/ isnan(bucket[j][4])

\* '%.5e' of a defined, non-negative float: <<mantissa, exponent>> with a
\* mantissa of six digits, rounded half up.
RECURSIVE ExpUp(_, _, _)
ExpUp(n, d, e) == IF n >= 10 * d THEN ExpUp(n, 10 * d, e + 1) ELSE <<n, d, e>>

RECURSIVE ExpDown(_, _, _)
ExpDown(n, d, e) == IF n < d THEN ExpDown(10 * n, d, e - 1) ELSE <<n, d, e>>

Fmt5e(q) ==
    IF q[1] = 0 THEN <<0, 0>>
    ELSE LET t == IF q[1] >= q[2] THEN ExpUp(q[1], q[2], 0) ELSE ExpDown(q[1], q[2], 0)
             m == (2 * t[1] * 100000 + t[2]) \div (2 * t[2])
         IN  IF m >= 1000000 THEN <<100000, t[3] + 1>> ELSE <<m, t[3]>>

\* The text np.savetxt writes for a bucket: one line of four fields a row.
SaveTxt(bucket) ==
    [j \in 1..Len(bucket) |->
        << Fmt5e(Flt(bucket[j][1])), Fmt5e(bucket[j][2]),
           Fmt5e(bucket[j][3]), Fmt5e(bucket[j][4]) >>]

\* The path of a bucket file below outputFolder; label is "" outside the
\* per-label held-out directories.
BucketPath(v, part, label, i) == << Videos[v], part, label, i >>

VARIABLES
    cfgFile,          \* trainingDataConfig.json: <<>> when absent, else <<its JSON>>
    outputExists,     \* whether outputFolder exists
    dirs,             \* the directories below outputFolder
    files,            \* the bucket files: a function from path to text
    runs,             \* how many invocations have started
    pc,               \* per invocation: where it is
    call,             \* its arguments, and the config values it sees
    new_config,
    video,            \* index of the recording being processed
    bucket,           \* the offset i of the loop at line 148
    converted,        \* what convertData returned for the recording
    stdout,           \* what it has printed
    ops,              \* history: how many times it changed the destination
    start             \* history: the destination as it was at the call

fsVars == << cfgFile, outputExists, dirs, files >>

createVars ==
    << cfgFile, outputExists, dirs, files, runs, pc, call, new_config, video,
       bucket, converted, stdout, ops, start >>

NoCall == [samplingRate |-> 0, labels |-> None, cfg |-> {}]

NoStart == [cfgFile |-> <<>>, outputExists |-> FALSE, dirs |-> {}, files |-> <<>>,
            afterKill |-> FALSE]

InitCreateIdle ==
    /\ cfgFile = <<>>
    /\ outputExists = FALSE
    /\ dirs = {}
    /\ files = <<>>
    /\ runs = 0
    /\ pc = [p \in Procs |-> "idle"]
    /\ call = [p \in Procs |-> NoCall]
    /\ new_config = [p \in Procs |-> {}]
    /\ video = [p \in Procs |-> 0]
    /\ bucket = [p \in Procs |-> 0]
    /\ converted = [p \in Procs |-> {}]
    /\ stdout = [p \in Procs |-> <<>>]
    /\ ops = [p \in Procs |-> 0]
    /\ start = [p \in Procs |-> NoStart]

(* ------------------------------------------------------------------ *)
(* ConvTemporalGraphical                                              *)
(* ------------------------------------------------------------------ *)

\* Tensors are functions of 1-based indices: a Feature Tensor x[n][c][t][v],
\* an Adjacency Tensor A[k][v][w].  The entries are integers.
RECURSIVE Sum(_, _)
Sum(f, n) == IF n = 0 THEN 0 ELSE f[n] + Sum(f, n - 1)

Size(t) == Cardinality(DOMAIN t)

\* The input tensors explored: entries that vary along every axis, from a
\* few seeds.
FeatureTensor(b, c, t, v, s) ==
    [n \in 1..b |-> [ci \in 1..c |-> [ti \in 1..t |-> [vi \in 1..v |->
        ((s[1] * ti + s[2] * vi + s[3] * ci + n) % 3) - 1]]]]

AdjacencyTensor(k, v, s) ==
    [ki \in 1..k |-> [vi \in 1..v |-> [wi \in 1..v |->
        (s[1] * ki + s[2] * vi + s[3] * wi * ki) % 3]]]

Seeds == { <<0, 1, 1>>, <<1, 0, 1>>, <<1, 1, 0>>, <<2, 1, 1>> }

ChannelCounts == {1, 2}

\* self.conv of line 44 with the defaults of line 37-41, as st_gcn builds it
\* (line 98): a 1x1 convolution with a bias.
Conv2d(conv, x) ==
    [n \in DOMAIN x |-> [c \in DOMAIN conv.weight |->
        [t \in DOMAIN x[n][1] |-> [v \in DOMAIN x[n][1][t] |->
            conv.bias[c] +
            Sum([ci \in DOMAIN x[n] |-> conv.weight[c][ci] * x[n][ci][t][v]],
                Size(x[n]))]]]]

\* The learned parameters explored.
ConvLayer(cin, cout, s) ==
    [weight |-> [c \in 1..cout |-> [ci \in 1..cin |-> ((s[1] * c + s[2] * ci) % 3) - 1]],
     bias   |-> [c \in 1..cout |-> (s[3] * c) % 2]]

\* Whether torch.einsum accepts sizes t of x and k of A for the shared
\* subscript t: equal, or one of them 1 (broadcast).
EinsumAccepts(t, k) == t = k \/ t = 1 \/ k = 1

At(i, size) == IF size = 1 THEN 1 ELSE i

\* torch.einsum('nctv,tvw->nctw', (x, A)).
MutEinsum(x, A) ==
    [n \in DOMAIN x |-> [c \in DOMAIN x[n] |->
        [t \in DOMAIN x[n][c] |->
            [w \in DOMAIN A[1][1] |->
                Sum([k \in DOMAIN A |->
                        Sum([v \in DOMAIN A[1] |-> x[n][c][t][v] * A[k][v][w]],
                            Size(A[1]))],
                    Size(A))]]]]

Einsum(x, A) ==
    LET tx == Size(x[1][1])
        ta == Size(A)
        tt == IF tx >= ta THEN tx ELSE ta
    IN  [n \in DOMAIN x |-> [c \in DOMAIN x[n] |->
            [t \in 1..tt |->
                [w \in DOMAIN A[1][1] |->
                    Sum([v \in DOMAIN A[1] |->
                            x[n][c][At(t, tx)][v] * A[At(t, ta)][v][w]],
                        Size(A[1]))]]]]

VARIABLES
    kernel_size,     \* self.kernel_size
    conv,            \* self.conv: its weight and bias
    x, A,            \* the locals of forward
    gpc,             \* where the call is: "assert", "conv", "einsum", "returned", "raised"
    x0               \* history: the Feature Tensor passed in

gcnVars == << kernel_size, conv, x, A, gpc, x0 >>

GcnIdle ==
    /\ kernel_size = 0
    /\ conv = {}
    /\ x = {}
    /\ A = {}
    /\ gpc = "idle"
    /\ x0 = {}

(* ------------------------------------------------------------------ *)
(* st_gcn and social_stgcnn: the shapes of the tensors                *)
(* ------------------------------------------------------------------ *)

\* Longest axis (time, relation, node, batch) of the tensors given to the
\* blocks and to the network, apart from the fixed scenario.
MaxAxis == 3

\* Largest n_stgcnn and n_txpcnn.
MaxStack == 3

\* A tensor is modelled by its shape, a tuple of sizes; an operation that
\* raises yields Raised.
Raised == << >>

Larger(a, b) == IF a >= b THEN a ELSE b

\* Two sizes of one axis that broadcast: equal, or one of them 1.
Broadcasts(a, b) == a = b \/ a = 1 \/ b = 1

\* nn.Conv2d(cin, cout, (kh, kw), stride (sh, sw), padding (ph, pw)) on a
\* (B, C, H, W) tensor.
Conv2dShape(s, cin, cout, kh, kw, sh, sw, ph, pw) ==
    IF s = Raised \/ s[2] # cin \/ s[3] + 2 * ph < kh \/ s[4] + 2 * pw < kw
    THEN Raised
    ELSE << s[1], cout, ((s[3] + 2 * ph - kh) \div sh) + 1,
            ((s[4] + 2 * pw - kw) \div sw) + 1 >>

\* nn.BatchNorm2d(c): in training mode it refuses a single value a channel.
BatchNorm2dShape(s, c, training) ==
    IF s = Raised \/ s[2] # c \/ (training /\ s[1] * s[3] * s[4] = 1)
    THEN Raised
    ELSE s

\* nn.Linear(fin, fout) on the last axis of a tensor of any rank.
LinearShape(s, fin, fout) ==
    IF s = Raised \/ s[Len(s)] # fin THEN Raised
    ELSE [i \in 1..Len(s) |-> IF i = Len(s) THEN fout ELSE s[i]]

\* Tensor.permute(order), order 1-based.
Permute(s, order) ==
    IF s = Raised THEN Raised ELSE [i \in 1..Len(order) |-> s[order[i]]]

\* a + b of two tensors of one rank, with broadcasting.
AddShape(a, b) ==
    IF a = Raised \/ b = Raised \/ Len(a) # Len(b) THEN Raised
    ELSE IF \E i \in 1..Len(a) : ~Broadcasts(a[i], b[i]) THEN Raised
    ELSE [i \in 1..Len(a) |-> Larger(a[i], b[i])]

\* torch.einsum('nctv,tvw->nctw', (x, A)).
EinsumShape(s, a) ==
    IF s = Raised \/ ~Broadcasts(s[3], a[1]) \/ ~Broadcasts(s[4], a[2]) THEN Raised
    ELSE << s[1], s[2], Larger(s[3], a[1]), a[3] >>

\* ConvTemporalGraphical.forward on shapes: the x it returns.
GcnShape(s, a, cin, cout, K) ==
    IF a[1] # K THEN Raised
    ELSE EinsumShape(Conv2dShape(s, cin, cout, 1, 1, 1, 1, 0, 0), a)

\* What a constructor that raised leaves.
NoBlock == [raised |-> "AssertionError"]

MutStGcnInit(cin, cout, kernel, use_mdn, stride, residual) ==
    IF kernel[1] % 2 # 1 THEN NoBlock
    ELSE [in_channels |-> cin, out_channels |-> cout,
          kt |-> kernel[1], K |-> kernel[2],
          padding |-> 0,
          stride |-> stride, use_mdn |-> use_mdn,
          residual |-> IF ~residual THEN "zero"
                       ELSE IF cin = cout /\ stride = 1 THEN "identity"
                       ELSE "conv"]

\* st_gcn.__init__: the block built, or NoBlock when an assertion fails.
StGcnInit(cin, cout, kernel, use_mdn, stride, residual) ==
    IF kernel[1] % 2 # 1 THEN NoBlock
    ELSE [in_channels |-> cin, out_channels |-> cout,
          kt |-> kernel[1], K |-> kernel[2],
          padding |-> (kernel[1] - 1) \div 2,
          stride |-> stride, use_mdn |-> use_mdn,
          residual |-> IF ~residual THEN "zero"
                       ELSE IF cin = cout /\ stride = 1 THEN "identity"
                       ELSE "conv"]

\* self.residual(x): the number 0, x itself, or a strided 1x1 convolution
\* followed by a normalisation.
ResidualShape(blk, s, training) ==
    IF blk.residual = "zero" THEN << 1, 1, 1, 1 >>
    ELSE IF blk.residual = "identity" THEN s
    ELSE BatchNorm2dShape(
             Conv2dShape(s, blk.in_channels, blk.out_channels, 1, 1, blk.stride, 1, 0, 0),
             blk.out_channels, training)

\* self.tcn(x): normalisation, activation, temporal convolution,
\* normalisation, dropout.
TcnShape(blk, s, training) ==
    BatchNorm2dShape(
        Conv2dShape(BatchNorm2dShape(s, blk.out_channels, training),
                    blk.out_channels, blk.out_channels,
                    blk.kt, 1, blk.stride, 1, blk.padding, 0),
        blk.out_channels, training)

\* st_gcn.forward on shapes: the x it returns.
StGcnShape(blk, s, a, training) ==
    LET res == ResidualShape(blk, s, training)
        g   == GcnShape(s, a, blk.in_channels, blk.out_channels, blk.K)
    IN  IF res = Raised \/ g = Raised THEN Raised
        ELSE AddShape(TcnShape(blk, g, training), res)

VARIABLES
    st_args,         \* the arguments of st_gcn(...) and the mode of the module
    st_block,        \* the block built
    st_x, st_A,      \* the locals x and A of st_gcn.forward
    st_res,          \* the local res
    st_x0,           \* history: the Feature Tensor passed in
    st_pc            \* "new", "residual", "gcn", "tcn", "prelu", "returned", "raised"

stVars == << st_args, st_block, st_x, st_A, st_res, st_x0, st_pc >>

StIdle ==
    /\ st_args = << >>
    /\ st_block = NoBlock
    /\ st_x = Raised
    /\ st_A = Raised
    /\ st_res = Raised
    /\ st_x0 = Raised
    /\ st_pc = "idle"

\* Tensor.repeat(reps) with as many repeats as the tensor has axes, or more.
RepeatShape(s, reps) ==
    LET lead == Len(reps) - Len(s)
    IN  IF s = Raised \/ lead < 0 THEN Raised
        ELSE [i \in 1..Len(reps) |-> reps[i] * (IF i <= lead THEN 1 ELSE s[i - lead])]

\* torch.cat((a, b), dim), dim 1-based.
CatShape(a, b, dim) ==
    IF a = Raised \/ b = Raised \/ Len(a) # Len(b) THEN Raised
    ELSE IF \E i \in 1..Len(a) : i # dim /\ a[i] # b[i] THEN Raised
    ELSE [i \in 1..Len(a) |-> IF i = dim THEN a[i] + b[i] ELSE a[i]]

\* Tensor.rot90(k=-1): the first two axes change places.
Rot90Shape(s) == Permute(s, << 2, 1 >> \o [i \in 1..(Len(s) - 2) |-> i + 2])

\* nn.Conv2d(cin, cout, 3, padding=1), the temporal-projection layer.
TpcnnShape(layer, s) == Conv2dShape(s, layer.cin, layer.cout, 3, 3, 1, 1, 1, 1)

\* The blocks st_gcns of social_stgcnn.__init__ (lines 175-178).
StGcns(n, input_feat, output_feat, ks, seq_len) ==
    [j \in 1..n |->
        StGcnInit(IF j = 1 THEN input_feat ELSE output_feat, output_feat,
                  << ks, seq_len >>, FALSE, 1, TRUE)]

\* The layers tpcnns of social_stgcnn.__init__ (lines 180-183).
MutTpcnns(m, seq_len, pred_seq_len) ==
    [j \in 1..m |-> [cin |-> seq_len, cout |-> pred_seq_len]]

Tpcnns(m, seq_len, pred_seq_len) ==
    [j \in 1..m |-> [cin |-> IF j = 1 THEN seq_len ELSE pred_seq_len,
                     cout |-> pred_seq_len]]

\* social_stgcnn.__init__.
NetInit(args) ==
    LET blocks == StGcns(args.n_stgcnn, args.input_feat, args.output_feat,
                         args.kernel_size, args.seq_len)
    IN  IF \E j \in 1..Len(blocks) : blocks[j] = NoBlock THEN NoBlock
        ELSE [st_gcns |-> blocks,
              tpcnns |-> Tpcnns(args.n_txpcnn, args.seq_len, args.pred_seq_len),
              tpcnn_ouput |-> [cin |-> args.pred_seq_len, cout |-> args.pred_seq_len],
              prelus |-> args.n_txpcnn]

\* Lines 193-203 on shapes: v, a after the class encoding is mixed in.
ClassEncV(v, seq_len) ==
    Permute(LinearShape(Permute(v, << 1, 2, 4, 3 >>), seq_len, seq_len), << 1, 2, 4, 3 >>)

ClassEncA(a, hot_enc, seq_len, hot_enc_length) ==
    LET an  == Permute(LinearShape(Permute(a, << 2, 3, 1 >>), seq_len, seq_len),
                       << 3, 1, 2 >>)
        rep == RepeatShape(hot_enc, << a[2], 1, 1 >>)
        hot == CatShape(Rot90Shape(rep), rep, 3)
        c   == Permute(LinearShape(hot, 2 * hot_enc_length, seq_len), << 3, 1, 2 >>)
    IN  Permute(LinearShape(Permute(CatShape(an, c, 1), << 2, 3, 1 >>),
                            2 * seq_len, seq_len),
                << 3, 1, 2 >>)

VARIABLES
    net_args,        \* the arguments of social_stgcnn(...), config.class_enc, the mode
    net,             \* the module built: st_gcns, tpcnns, tpcnn_ouput, prelus
    net_v, net_a,    \* the locals v and a of forward
    net_hot,         \* the argument hot_enc
    net_k,           \* the loop variable k
    net_pc,          \* "new", "enc", "blocks", "permute", "first", "residual",
                     \* "output", "return", "returned", "raised"
    net_applied,     \* history: the layers applied, in order
    net_v0           \* history: the Feature Tensor passed in

netVars == << net_args, net, net_v, net_a, net_hot, net_k, net_pc, net_applied, net_v0 >>

NetIdle ==
    /\ net_args = << >>
    /\ net = NoBlock
    /\ net_v = Raised
    /\ net_a = Raised
    /\ net_hot = Raised
    /\ net_k = 0
    /\ net_pc = "idle"
    /\ net_applied = << >>
    /\ net_v0 = Raised

(* ------------------------------------------------------------------ *)
(* SpecConvert: one call of convertData                               *)
(* ------------------------------------------------------------------ *)

VARIABLES
    data,            \* the rows passed in
    testSplit, validSplit, samplingRate, labels,    \* the other arguments
    config,          \* the config module's values the call reads
    maxTestFrame, maxValidFrame,
    frame, maxX, maxY,
    trainingData, testData, validationData,
    cpc,             \* where the call is: "start", "scan", "done", "error"
    routed,          \* history: for each counter value, where its row went
    scanned          \* history: the buckets as the scan left them

convVars ==
    << data, testSplit, validSplit, samplingRate, labels, config, maxTestFrame,
       maxValidFrame, frame, maxX, maxY, trainingData, testData, validationData,
       cpc, routed, scanned >>

\* The end-to-end scenario: 100 rows, 10 pedestrians, 20 frames.
ScenarioData ==
    [i \in 1..100 |->
        RawRow(Flt((i - 1) % 10), ((i - 1) % 10) + 2, 4, ((i - 1) % 10) + 4, 6,
               (i - 1) \div 5, IF i % 2 = 0 THEN "Pedestrian" ELSE "Biker")]

ScenarioConfig == [annotationXScale |-> 1, annotationYScale |-> 1, fractionToRemove |-> 20]

ConvLocalsInit ==
    /\ maxTestFrame = 0
    /\ maxValidFrame = 0
    /\ frame = 0
    /\ maxX = Flt(0)
    /\ maxY = Flt(0)
    /\ trainingData = <<>>
    /\ testData = <<>>
    /\ validationData = <<>>
    /\ cpc = "start"
    /\ routed = <<>>
    /\ scanned = <<>>

\* The calls SpecConvert explores: short row sequences under every argument
\* combination, and the end-to-end scenario without and with a label list.
InitConvert ==
    /\ \/ /\ data \in SeqsUpTo(RowPool, MaxRows)
          /\ \E sp \in SplitPairs : testSplit = sp[1] /\ validSplit = sp[2]
          /\ samplingRate \in 1..MaxRate
          /\ labels \in LabelArgs
          /\ config \in Configs
       \/ /\ data = ScenarioData
          /\ testSplit = <<1, 10>>
          /\ validSplit = <<1, 10>>
          /\ samplingRate = 5
          /\ labels \in {None, Labels}
          /\ config = ScenarioConfig
    /\ ConvLocalsInit

LocalsOf(s) ==
    /\ frame' = s.frame
    /\ maxX' = s.maxX
    /\ maxY' = s.maxY
    /\ trainingData' = s.trainingData
    /\ testData' = s.testData
    /\ validationData' = s.validationData

CurrentScan ==
    [frame |-> frame, maxX |-> maxX, maxY |-> maxY, trainingData |-> trainingData,
     testData |-> testData, validationData |-> validationData]

\* Lines 23-40: the cutoffs, then the empty buckets; line 31 raises when
\* labels is None.
ConvStart ==
    /\ cpc = "start"
    /\ UNCHANGED << createVars, gcnVars, stVars, netVars >>
    /\ maxTestFrame' = maxTestFrameOf(Len(data), testSplit)
    /\ maxValidFrame' = maxValidFrameOf(Len(data), testSplit, validSplit)
    /\ IF LabelsIterable(labels)
       THEN /\ LocalsOf(ScanInit(samplingRate, labels))
            /\ cpc' = "scan"
       ELSE /\ cpc' = "error"
            /\ UNCHANGED << frame, maxX, maxY, trainingData, testData, validationData >>
    /\ UNCHANGED << data, testSplit, validSplit, samplingRate, labels, config,
                    routed, scanned >>

\* Lines 41-61: one row.
ConvScanRow ==
    /\ cpc = "scan"
    /\ UNCHANGED << createVars, gcnVars, stVars, netVars >>
    /\ frame < Len(data)
    /\ LET crow == rowConversion(data[frame + 1])
       IN  /\ LocalsOf(ScanRow(CurrentScan, data[frame + 1], samplingRate, labels,
                               maxTestFrame, maxValidFrame, config))
           /\ routed' = Append(routed,
                  IF Kept(crow, labels)
                  THEN [part |-> PartitionOf(frame, maxTestFrame, maxValidFrame),
                        key |-> frame % samplingRate, label |-> crow[5]]
                  ELSE [part |-> "dropped", key |-> frame % samplingRate,
                        label |-> crow[5]])
    /\ UNCHANGED << data, testSplit, validSplit, samplingRate, labels, config,
                    maxTestFrame, maxValidFrame, cpc, scanned >>

\* Lines 63-88: the border filters, and the return.
ConvFilter ==
    /\ cpc = "scan"
    /\ UNCHANGED << createVars, gcnVars, stVars, netVars >>
    /\ frame = Len(data)
    /\ scanned' = CurrentScan
    /\ LocalsOf(FilterBuckets(CurrentScan, labels, config))
    /\ cpc' = "done"
    /\ UNCHANGED << data, testSplit, validSplit, samplingRate, labels, config,
                    maxTestFrame, maxValidFrame, routed >>

NextConvert == ConvStart \/ ConvScanRow \/ ConvFilter

(* ------------------------------------------------------------------ *)
(* SpecCreate: calls of createTrainingData, one after the other        *)
(* ------------------------------------------------------------------ *)

\* The destination before the first call: no outputFolder, or an empty one.
InitCreate ==
    /\ cfgFile = <<>>
    /\ outputExists \in BOOLEAN
    /\ dirs = {}
    /\ files = <<>>
    /\ runs = 0
    /\ pc = [p \in Procs |-> "idle"]
    /\ call = [p \in Procs |-> NoCall]
    /\ new_config = [p \in Procs |-> {}]
    /\ video = [p \in Procs |-> 0]
    /\ bucket = [p \in Procs |-> 0]
    /\ converted = [p \in Procs |-> {}]
    /\ stdout = [p \in Procs |-> <<>>]
    /\ ops = [p \in Procs |-> 0]
    /\ start = [p \in Procs |-> NoStart]

Ended == {"idle", "returned", "raised", "killed"}

Put(f, path, text) ==
    [q \in (DOMAIN f) \cup {path} |-> IF q = path THEN text ELSE f[q]]

\* The call: lines 104-114.
Invoke(p) ==
    /\ pc[p] \in Ended
    /\ UNCHANGED << convVars, gcnVars, stVars, netVars >>
    /\ runs < MaxRuns
    /\ \E rate \in 1..MaxRate : \E labs \in LabelArgs : \E cfg \in CreateConfigs :
          /\ call' = [call EXCEPT ![p] = [samplingRate |-> rate, labels |-> labs,
                                          cfg |-> cfg]]
          /\ new_config' = [new_config EXCEPT ![p] = NewConfig(labs, cfg)]
    /\ runs' = runs + 1
    /\ pc' = [pc EXCEPT ![p] = "check"]
    /\ video' = [video EXCEPT ![p] = 0]
    /\ bucket' = [bucket EXCEPT ![p] = 0]
    /\ converted' = [converted EXCEPT ![p] = {}]
    /\ stdout' = [stdout EXCEPT ![p] = <<>>]
    /\ ops' = [ops EXCEPT ![p] = 0]
    /\ start' = [start EXCEPT ![p] =
                    [cfgFile |-> cfgFile, outputExists |-> outputExists,
                     dirs |-> dirs, files |-> files,
                     afterKill |-> pc[p] = "killed" /\ ops[p] > 0]]
    /\ UNCHANGED fsVars

\* Lines 115-122: read the persisted fingerprint and compare.
ReadConfig(p) ==
    /\ pc[p] = "check"
    /\ UNCHANGED << convVars, gcnVars, stVars, netVars >>
    /\ IF cfgFile # <<>>
       THEN /\ new_config' = [new_config EXCEPT ![p].complete = TRUE]
            /\ IF SameAsPersisted(new_config[p], json_load(cfgFile[1]))
               THEN /\ stdout' = [stdout EXCEPT ![p] =
                                    Append(@, "No new config, skipping data creation")]
                    /\ pc' = [pc EXCEPT ![p] = "returned"]
               ELSE /\ pc' = [pc EXCEPT ![p] = "mark"]
                    /\ UNCHANGED stdout
       ELSE /\ pc' = [pc EXCEPT ![p] = "delete"]
            /\ UNCHANGED << new_config, stdout >>
    /\ UNCHANGED << fsVars, runs, call, video, bucket, converted, ops, start >>

\* Lines 123-126: write the fingerprint as incomplete.
MarkIncomplete(p) ==
    /\ pc[p] = "mark"
    /\ UNCHANGED << convVars, gcnVars, stVars, netVars >>
    /\ new_config' = [new_config EXCEPT ![p] = IncompleteOf(@)]
    /\ IF outputExists
       THEN /\ cfgFile' = << json_dump(new_config'[p]) >>
            /\ ops' = [ops EXCEPT ![p] = @ + 1]
            /\ pc' = [pc EXCEPT ![p] = "delete"]
       ELSE /\ pc' = [pc EXCEPT ![p] = "raised"]
            /\ UNCHANGED << cfgFile, ops >>
    /\ UNCHANGED << outputExists, dirs, files, runs, call, video, bucket, converted,
                    stdout, start >>

\* os.removedirs removes an empty directory and raises OSError on any other.
CanRemoveDirs == dirs = {} /\ cfgFile = <<>>

\* Lines 127-131: delete outputFolder when it exists.
DeleteOutput(p) ==
    /\ pc[p] = "delete"
    /\ UNCHANGED << convVars, gcnVars, stVars, netVars >>
    /\ IF ~outputExists
       THEN /\ pc' = [pc EXCEPT ![p] = "convert"]
            /\ UNCHANGED << outputExists, ops >>
       ELSE IF CanRemoveDirs
       THEN /\ outputExists' = FALSE
            /\ ops' = [ops EXCEPT ![p] = @ + 1]
            /\ pc' = [pc EXCEPT ![p] = "convert"]
       ELSE /\ pc' = [pc EXCEPT ![p] = "raised"]
            /\ UNCHANGED << outputExists, ops >>
    /\ video' = [video EXCEPT ![p] = 1]
    /\ UNCHANGED << cfgFile, dirs, files, runs, call, new_config, bucket, converted,
                    stdout, start >>

\* The call at lines 140-141; the splits are convertData's defaults.
ConvertVideo(v, c) ==
    convertData(InputRows(v), <<3, 20>>, <<3, 20>>, c.samplingRate, c.labels, c.cfg)

\* Lines 137-141: read the recording and convert it.
Convert(p) ==
    /\ pc[p] = "convert"
    /\ UNCHANGED << convVars, gcnVars, stVars, netVars >>
    /\ LET r == ConvertVideo(video[p], call[p])
       IN  IF r.raised = "nothing"
           THEN /\ converted' = [converted EXCEPT ![p] = r]
                /\ pc' = [pc EXCEPT ![p] = "mkdirs"]
           ELSE /\ converted' = [converted EXCEPT ![p] = {}]
                /\ pc' = [pc EXCEPT ![p] = "raised"]
    /\ UNCHANGED << fsVars, runs, call, new_config, video, bucket, stdout, ops, start >>

\* Lines 142-147: the train, test and val directories of the recording.
MakeDirs(p) ==
    /\ pc[p] = "mkdirs"
    /\ UNCHANGED << convVars, gcnVars, stVars, netVars >>
    /\ dirs' = dirs \cup { << Videos[video[p]], part >> : part \in {"train", "test", "val"} }
    /\ outputExists' = TRUE
    /\ ops' = [ops EXCEPT ![p] = @ + 1]
    /\ bucket' = [bucket EXCEPT ![p] = 0]
    /\ pc' = [pc EXCEPT ![p] = "train"]
    /\ UNCHANGED << cfgFile, files, runs, call, new_config, video, converted, stdout,
                    start >>

\* Lines 149-158: the training bucket i.
WriteTrain(p) ==
    /\ pc[p] = "train"
    /\ UNCHANGED << convVars, gcnVars, stVars, netVars >>
    /\ LET b == converted[p].trainingData[bucket[p]]
       IN  IF ~HasNaN(b)
           THEN /\ files' = Put(files, BucketPath(video[p], "train", "", bucket[p]),
                                SaveTxt(b))
                /\ ops' = [ops EXCEPT ![p] = @ + 1]
                /\ UNCHANGED stdout
           ELSE /\ stdout' = [stdout EXCEPT ![p] = Append(@, "Invalid Training Data")]
                /\ UNCHANGED << files, ops >>
    /\ pc' = [pc EXCEPT ![p] = "test"]
    /\ UNCHANGED << cfgFile, outputExists, dirs, runs, call, new_config, video, bucket,
                    converted, start >>

\* The held-out buckets i that lines 159-182 write: per label with a label
\* list, a single one without.
TestBuckets(p) ==
    IF call[p].labels = None
    THEN { [label |-> "", rows |-> converted[p].testData[bucket[p]]] }
    ELSE { [label |-> l, rows |-> converted[p].testData[l][bucket[p]]] :
              l \in call[p].labels }

RECURSIVE Repeat(_, _)
Repeat(msg, n) == IF n = 0 THEN <<>> ELSE <<msg>> \o Repeat(msg, n - 1)

\* Lines 159-182: the held-out buckets i, with their label directories.
WriteTest(p) ==
    /\ pc[p] = "test"
    /\ UNCHANGED << convVars, gcnVars, stVars, netVars >>
    /\ LET good == { t \in TestBuckets(p) : ~HasNaN(t.rows) }
           bad  == TestBuckets(p) \ good
           path(t) == BucketPath(video[p], "test", t.label, bucket[p])
       IN  /\ files' = [q \in (DOMAIN files) \cup { path(t) : t \in good } |->
                            IF \E t \in good : path(t) = q
                            THEN SaveTxt((CHOOSE t \in good : path(t) = q).rows)
                            ELSE files[q]]
           /\ dirs' = IF call[p].labels = None THEN dirs
                      ELSE dirs \cup { << Videos[video[p]], "test", l >> :
                                          l \in call[p].labels }
           /\ ops' = [ops EXCEPT ![p] = @ + Cardinality(good)]
           /\ stdout' = [stdout EXCEPT ![p] =
                            @ \o Repeat("Invalid Test Data", Cardinality(bad))]
    /\ pc' = [pc EXCEPT ![p] = "val"]
    /\ UNCHANGED << cfgFile, outputExists, runs, call, new_config, video, bucket,
                    converted, start >>

\* Lines 150 and 183-190: the validation bucket i; then the next i, the next
\* recording, or the end of the loops.
WriteVal(p) ==
    /\ pc[p] = "val"
    /\ UNCHANGED << convVars, gcnVars, stVars, netVars >>
    /\ LET b == converted[p].validationData[bucket[p]]
       IN  IF ~HasNaN(b)
           THEN /\ files' = Put(files, BucketPath(video[p], "val", "", bucket[p]),
                                SaveTxt(b))
                /\ ops' = [ops EXCEPT ![p] = @ + 1]
                /\ UNCHANGED stdout
           ELSE /\ stdout' = [stdout EXCEPT ![p] = Append(@, "Invalid Validation Data")]
                /\ UNCHANGED << files, ops >>
    /\ IF bucket[p] + 1 < call[p].samplingRate
       THEN /\ bucket' = [bucket EXCEPT ![p] = @ + 1]
            /\ pc' = [pc EXCEPT ![p] = "train"]
            /\ UNCHANGED << video, converted >>
       ELSE IF video[p] < Len(Videos)
       THEN /\ video' = [video EXCEPT ![p] = @ + 1]
            /\ pc' = [pc EXCEPT ![p] = "convert"]
            /\ UNCHANGED << bucket, converted >>
       ELSE /\ pc' = [pc EXCEPT ![p] = "finish"]
            /\ converted' = [converted EXCEPT ![p] = {}]
            /\ UNCHANGED << video, bucket >>
    /\ UNCHANGED << cfgFile, outputExists, dirs, runs, call, new_config, start >>

\* Lines 191-194: write the fingerprint as complete.
Finish(p) ==
    /\ pc[p] = "finish"
    /\ UNCHANGED << convVars, gcnVars, stVars, netVars >>
    /\ new_config' = [new_config EXCEPT ![p].complete = TRUE]
    /\ IF outputExists
       THEN /\ cfgFile' = << json_dump(new_config'[p]) >>
            /\ ops' = [ops EXCEPT ![p] = @ + 1]
            /\ pc' = [pc EXCEPT ![p] = "returned"]
       ELSE /\ pc' = [pc EXCEPT ![p] = "raised"]
            /\ UNCHANGED << cfgFile, ops >>
    /\ UNCHANGED << outputExists, dirs, files, runs, call, video, bucket, converted,
                    stdout, start >>

\* The process is killed in the middle of a call.
Interrupt(p) ==
    /\ pc[p] \notin Ended
    /\ UNCHANGED << convVars, gcnVars, stVars, netVars >>
    /\ pc' = [pc EXCEPT ![p] = "killed"]
    /\ converted' = [converted EXCEPT ![p] = {}]
    /\ UNCHANGED << fsVars, runs, call, new_config, video, bucket, stdout, ops, start >>

Step(p) ==
    \/ Invoke(p)
    \/ ReadConfig(p)
    \/ MarkIncomplete(p)
    \/ DeleteOutput(p)
    \/ Convert(p)
    \/ MakeDirs(p)
    \/ WriteTrain(p)
    \/ WriteTest(p)
    \/ WriteVal(p)
    \/ Finish(p)
    \/ Interrupt(p)

NextCreate == \E p \in {1} : Step(p)

\* Two invocations against one destination, their steps interleaved.  Both
\* have been called (lines 104-114) on a destination without a persisted
\* fingerprint.
ConcurrentCalls ==
    { [samplingRate |-> rate, labels |-> labs, cfg |-> cfg] :
         rate \in 1..MaxRate, labs \in { {"Pedestrian"}, Labels },
         cfg \in { c \in CreateConfigs : c.fractionToRemove = 4 } }

InitConcurrent ==
    /\ cfgFile = <<>>
    /\ outputExists \in BOOLEAN
    /\ dirs = {}
    /\ files = <<>>
    /\ runs = Cardinality(Procs)
    /\ pc = [p \in Procs |-> "check"]
    /\ call \in [Procs -> ConcurrentCalls]
    /\ new_config = [p \in Procs |-> NewConfig(call[p].labels, call[p].cfg)]
    /\ video = [p \in Procs |-> 0]
    /\ bucket = [p \in Procs |-> 0]
    /\ converted = [p \in Procs |-> {}]
    /\ stdout = [p \in Procs |-> <<>>]
    /\ ops = [p \in Procs |-> 0]
    /\ start = [p \in Procs |->
                  [cfgFile |-> cfgFile, outputExists |-> outputExists,
                   dirs |-> dirs, files |-> files, afterKill |-> FALSE]]

Run(p) ==
    \/ ReadConfig(p)
    \/ MarkIncomplete(p)
    \/ DeleteOutput(p)
    \/ Convert(p)
    \/ MakeDirs(p)
    \/ WriteTrain(p)
    \/ WriteTest(p)
    \/ WriteVal(p)
    \/ Finish(p)

NextConcurrent == \E p \in Procs : Run(p)

(* ------------------------------------------------------------------ *)
(* SpecGcn: one call of ConvTemporalGraphical.forward                 *)
(* ------------------------------------------------------------------ *)

InitGcn ==
    /\ kernel_size \in 1..MaxTime
    /\ \E cin \in ChannelCounts : \E cout \in ChannelCounts :
       \E t \in 1..MaxTime : \E v \in 1..MaxNodes : \E k \in 1..MaxTime :
       \E sx \in Seeds : \E sa \in Seeds : \E sw \in Seeds :
          /\ conv = ConvLayer(cin, cout, sw)
          /\ x = FeatureTensor(1, cin, t, v, sx)
          /\ A = AdjacencyTensor(k, v, sa)
    /\ x0 = x
    /\ gpc = "assert"

\* Line 54.
GcnAssert ==
    /\ gpc = "assert"
    /\ gpc' = IF Size(A) = kernel_size THEN "conv" ELSE "raised"
    /\ UNCHANGED << kernel_size, conv, x, A, x0 >>
    /\ UNCHANGED << convVars, createVars, stVars, netVars >>

\* Line 55.
GcnConv ==
    /\ gpc = "conv"
    /\ x' = Conv2d(conv, x)
    /\ gpc' = "einsum"
    /\ UNCHANGED << kernel_size, conv, A, x0 >>
    /\ UNCHANGED << convVars, createVars, stVars, netVars >>

\* Lines 56-57.
GcnEinsum ==
    /\ gpc = "einsum"
    /\ IF EinsumAccepts(Size(x[1][1]), Size(A))
       THEN /\ x' = Einsum(x, A)
            /\ gpc' = "returned"
       ELSE /\ gpc' = "raised"
            /\ UNCHANGED x
    /\ UNCHANGED << kernel_size, conv, A, x0 >>
    /\ UNCHANGED << convVars, createVars, stVars, netVars >>

NextGcn == GcnAssert \/ GcnConv \/ GcnEinsum

(* ------------------------------------------------------------------ *)
(* SpecSt: one st_gcn block built and called once                     *)
(* ------------------------------------------------------------------ *)

\* The block of the scenario: a (1, 2, 8, 10) Feature Tensor, a (K, 10, 10)
\* Adjacency Tensor, kernel (3, K), with 3 or 8 relations.
StScenarioArgs(cout, K, training) ==
    [in_channels |-> 2, out_channels |-> cout, kernel_size |-> << 3, K >>,
     use_mdn |-> FALSE, stride |-> 1, residual |-> TRUE, training |-> training]

InitSt ==
    /\ \/ \E cin \in ChannelCounts : \E cout \in ChannelCounts :
          \E kt \in 1..3 : \E K \in 1..MaxAxis : \E stride \in {1, 2} :
          \E residual \in BOOLEAN : \E use_mdn \in BOOLEAN : \E training \in BOOLEAN :
          \E B \in 1..2 : \E T \in 1..MaxAxis : \E V \in 1..2 : \E Ka \in 1..MaxAxis :
             /\ st_args = [in_channels |-> cin, out_channels |-> cout,
                           kernel_size |-> << kt, K >>, use_mdn |-> use_mdn,
                           stride |-> stride, residual |-> residual,
                           training |-> training]
             /\ st_x = << B, cin, T, V >>
             /\ st_A = << Ka, V, V >>
       \/ \E cout \in ChannelCounts : \E K \in {3, 8} : \E training \in BOOLEAN :
             /\ st_args = StScenarioArgs(cout, K, training)
             /\ st_x = << 1, 2, 8, 10 >>
             /\ st_A = << K, 10, 10 >>
    /\ st_block = NoBlock
    /\ st_res = Raised
    /\ st_x0 = st_x
    /\ st_pc = "new"

\* Lines 81-131.
StBuild ==
    /\ st_pc = "new"
    /\ st_block' = StGcnInit(st_args.in_channels, st_args.out_channels,
                             st_args.kernel_size, st_args.use_mdn,
                             st_args.stride, st_args.residual)
    /\ st_pc' = IF st_block' = NoBlock THEN "raised" ELSE "residual"
    /\ UNCHANGED << st_args, st_x, st_A, st_res, st_x0 >>
    /\ UNCHANGED << convVars, createVars, gcnVars, netVars >>

\* Line 135.
StResidual ==
    /\ st_pc = "residual"
    /\ st_res' = ResidualShape(st_block, st_x, st_args.training)
    /\ st_pc' = IF st_res' = Raised THEN "raised" ELSE "gcn"
    /\ UNCHANGED << st_args, st_block, st_x, st_A, st_x0 >>
    /\ UNCHANGED << convVars, createVars, gcnVars, netVars >>

\* Line 136.
StGcn ==
    /\ st_pc = "gcn"
    /\ LET g == GcnShape(st_x, st_A, st_block.in_channels, st_block.out_channels,
                         st_block.K)
       IN  IF g = Raised
           THEN st_pc' = "raised" /\ UNCHANGED st_x
           ELSE st_pc' = "tcn" /\ st_x' = g
    /\ UNCHANGED << st_args, st_block, st_A, st_res, st_x0 >>
    /\ UNCHANGED << convVars, createVars, gcnVars, netVars >>

\* Line 138.
StTcn ==
    /\ st_pc = "tcn"
    /\ LET y == AddShape(TcnShape(st_block, st_x, st_args.training), st_res)
       IN  IF y = Raised
           THEN st_pc' = "raised" /\ UNCHANGED st_x
           ELSE st_pc' = "prelu" /\ st_x' = y
    /\ UNCHANGED << st_args, st_block, st_A, st_res, st_x0 >>
    /\ UNCHANGED << convVars, createVars, gcnVars, netVars >>

\* Lines 140-143: the activation keeps the shape, whether applied or not.
StReturn ==
    /\ st_pc = "prelu"
    /\ st_pc' = "returned"
    /\ UNCHANGED << st_args, st_block, st_x, st_A, st_res, st_x0 >>
    /\ UNCHANGED << convVars, createVars, gcnVars, netVars >>

NextSt == StBuild \/ StResidual \/ StGcn \/ StTcn \/ StReturn

(* ------------------------------------------------------------------ *)
(* SpecNet: one social_stgcnn built and called once                   *)
(* ------------------------------------------------------------------ *)

SeqLens == {1, 2}

PredSeqLens == {1, 3}

KernelSizes == {2, 3}

InitNet ==
    /\ \E n \in 1..MaxStack : \E m \in 1..MaxStack :
       \E output_feat \in ChannelCounts : \E seq_len \in SeqLens :
       \E pred_seq_len \in PredSeqLens : \E ks \in KernelSizes :
       \E class_enc \in BOOLEAN : \E training \in BOOLEAN :
       \E B \in 1..2 : \E T \in SeqLens : \E V \in 1..2 : \E Ta \in SeqLens :
          /\ net_args = [n_stgcnn |-> n, n_txpcnn |-> m, input_feat |-> 2,
                         output_feat |-> output_feat, seq_len |-> seq_len,
                         pred_seq_len |-> pred_seq_len, kernel_size |-> ks,
                         hot_enc_length |-> 1, class_enc |-> class_enc,
                         training |-> training]
          /\ net_v = << B, 2, T, V >>
          /\ net_a = << Ta, V, V >>
          /\ net_hot = << V, 1 >>
    /\ net = NoBlock
    /\ net_k = 0
    /\ net_pc = "new"
    /\ net_applied = << >>
    /\ net_v0 = net_v

Applied(list, index, act, residual) ==
    [list |-> list, index |-> index, act |-> act, residual |-> residual]

\* Lines 147-188.
NetBuild ==
    /\ net_pc = "new"
    /\ net' = NetInit(net_args)
    /\ net_pc' = IF net' = NoBlock THEN "raised" ELSE "enc"
    /\ UNCHANGED << net_args, net_v, net_a, net_hot, net_k, net_applied, net_v0 >>
    /\ UNCHANGED << convVars, createVars, gcnVars, stVars >>

\* Lines 193-203.
NetClassEnc ==
    /\ net_pc = "enc"
    /\ IF ~net_args.class_enc
       THEN net_pc' = "blocks" /\ UNCHANGED << net_v, net_a >>
       ELSE LET v == ClassEncV(net_v, net_args.seq_len)
                a == ClassEncA(net_a, net_hot, net_args.seq_len, net_args.hot_enc_length)
            IN  IF v = Raised \/ a = Raised
                THEN net_pc' = "raised" /\ UNCHANGED << net_v, net_a >>
                ELSE net_pc' = "blocks" /\ net_v' = v /\ net_a' = a
    /\ net_k' = 0
    /\ UNCHANGED << net_args, net, net_hot, net_applied, net_v0 >>
    /\ UNCHANGED << convVars, createVars, gcnVars, stVars >>

\* Lines 205-206: one iteration.
NetBlock ==
    /\ net_pc = "blocks"
    /\ net_k < net_args.n_stgcnn
    /\ LET v == StGcnShape(net.st_gcns[net_k + 1], net_v, net_a, net_args.training)
       IN  IF v = Raised
           THEN net_pc' = "raised" /\ UNCHANGED << net_v, net_k, net_applied >>
           ELSE /\ net_v' = v
                /\ net_k' = net_k + 1
                /\ net_applied' = Append(net_applied, Applied("st_gcns", net_k, TRUE, TRUE))
                /\ UNCHANGED net_pc
    /\ UNCHANGED << net_args, net, net_a, net_hot, net_v0 >>
    /\ UNCHANGED << convVars, createVars, gcnVars, stVars >>

\* Line 208.
NetPermute ==
    /\ net_pc = "blocks"
    /\ net_k = net_args.n_stgcnn
    /\ net_v' = Permute(net_v, << 1, 3, 2, 4 >>)
    /\ net_pc' = "first"
    /\ UNCHANGED << net_args, net, net_a, net_hot, net_k, net_applied, net_v0 >>
    /\ UNCHANGED << convVars, createVars, gcnVars, stVars >>

\* Line 210.
NetFirst ==
    /\ net_pc = "first"
    /\ LET v == TpcnnShape(net.tpcnns[1], net_v)
       IN  IF v = Raised
           THEN net_pc' = "raised" /\ UNCHANGED << net_v, net_applied >>
           ELSE /\ net_v' = v
                /\ net_applied' = Append(net_applied, Applied("tpcnns", 0, TRUE, FALSE))
                /\ net_pc' = "residual"
    /\ net_k' = 1
    /\ UNCHANGED << net_args, net, net_a, net_hot, net_v0 >>
    /\ UNCHANGED << convVars, createVars, gcnVars, stVars >>

\* Lines 212-213: one iteration.
NetResidual ==
    /\ net_pc = "residual"
    /\ net_k < net_args.n_txpcnn - 1
    /\ LET v == AddShape(TpcnnShape(net.tpcnns[net_k + 1], net_v), net_v)
       IN  IF v = Raised
           THEN net_pc' = "raised" /\ UNCHANGED << net_v, net_k, net_applied >>
           ELSE /\ net_v' = v
                /\ net_k' = net_k + 1
                /\ net_applied' = Append(net_applied, Applied("tpcnns", net_k, TRUE, TRUE))
                /\ UNCHANGED net_pc
    /\ UNCHANGED << net_args, net, net_a, net_hot, net_v0 >>
    /\ UNCHANGED << convVars, createVars, gcnVars, stVars >>

\* Line 215.
NetOutput ==
    /\ net_pc = "residual"
    /\ net_k >= net_args.n_txpcnn - 1
    /\ LET v == TpcnnShape(net.tpcnn_ouput, net_v)
       IN  IF v = Raised
           THEN net_pc' = "raised" /\ UNCHANGED << net_v, net_applied >>
           ELSE /\ net_v' = v
                /\ net_applied' = Append(net_applied,
                                         Applied("tpcnn_ouput", 0, FALSE, FALSE))
                /\ net_pc' = "return"
    /\ UNCHANGED << net_args, net, net_a, net_hot, net_k, net_v0 >>
    /\ UNCHANGED << convVars, createVars, gcnVars, stVars >>

\* Lines 216-218.
NetReturn ==
    /\ net_pc = "return"
    /\ net_v' = Permute(net_v, << 1, 3, 2, 4 >>)
    /\ net_pc' = "returned"
    /\ UNCHANGED << net_args, net, net_a, net_hot, net_k, net_applied, net_v0 >>
    /\ UNCHANGED << convVars, createVars, gcnVars, stVars >>

NextNet ==
    \/ NetBuild \/ NetClassEnc \/ NetBlock \/ NetPermute
    \/ NetFirst \/ NetResidual \/ NetOutput \/ NetReturn

(* ------------------------------------------------------------------ *)
(* The specifications                                                 *)
(* ------------------------------------------------------------------ *)

vars == << convVars, createVars, gcnVars, stVars, netVars >>

ConvIdle ==
    /\ data = <<>>
    /\ testSplit = <<0, 1>>
    /\ validSplit = <<0, 1>>
    /\ samplingRate = 1
    /\ labels = None
    /\ config = {}
    /\ ConvLocalsInit

InitOfConvert ==
    InitConvert /\ InitCreateIdle /\ GcnIdle /\ StIdle /\ NetIdle

InitOfCreate ==
    InitCreate /\ ConvIdle /\ GcnIdle /\ StIdle /\ NetIdle

InitOfGcn ==
    InitGcn /\ ConvIdle /\ InitCreateIdle /\ StIdle /\ NetIdle

InitOfSt ==
    InitSt /\ ConvIdle /\ InitCreateIdle /\ GcnIdle /\ NetIdle

InitOfNet ==
    InitNet /\ ConvIdle /\ InitCreateIdle /\ GcnIdle /\ StIdle

SpecConvert == InitOfConvert /\ [][NextConvert]_vars

SpecCreate == InitOfCreate /\ [][NextCreate]_vars

SpecGcn == InitOfGcn /\ [][NextGcn]_vars

SpecSt == InitOfSt /\ [][NextSt]_vars

SpecNet == InitOfNet /\ [][NextNet]_vars

InitOfConcurrent ==
    InitConcurrent /\ ConvIdle /\ GcnIdle /\ StIdle /\ NetIdle

SpecConcurrent == InitOfConcurrent /\ [][NextConcurrent]_vars

(* ------------------------------------------------------------------ *)
(* Properties of convertData                                          *)
(* ------------------------------------------------------------------ *)

\* The counter values whose rows went to partition p.
CountersOf(p) == { c \in 0..(Len(routed) - 1) : routed[c + 1].part = p }

CountersIn(p, k) == { c \in CountersOf(p) : routed[c + 1].key = k }

\* The number of rows the scan put into bucket k of a partition.
ScannedLen(p, k) ==
    IF p = "train" THEN Len(scanned.trainingData[k])
    ELSE IF p = "val" THEN Len(scanned.validationData[k])
    ELSE IF labels = None THEN Len(scanned.testData[k])
    ELSE Cardinality({ c \in CountersIn(p, k) : routed[c + 1].label \in labels })

TestScannedLen(l, k) == Len(scanned.testData[l][k])

\* Every bucket holds as many rows as counter values were routed to it.
BucketsMatchRouting ==
    /\ \A p \in {"train", "val"} : \A k \in 0..(samplingRate - 1) :
          ScannedLen(p, k) = Cardinality(CountersIn(p, k))
    /\ \A l \in labels : \A k \in 0..(samplingRate - 1) :
          TestScannedLen(l, k) =
              Cardinality({ c \in CountersIn("test", k) : routed[c + 1].label = l })

\* C1: the cutoffs are ordered and at most N; once the scan is over, every
\* counter value in [0, N) was consumed once, the held-out, validation and
\* training partitions got a prefix, an infix and a suffix of [0, N) (less
\* the rows the category filter dropped, which land in no partition), and
\* every bucket holds exactly the rows routed to it.
C1_PartitionsCoverCounter ==
    /\ cpc # "start" => 0 <= maxTestFrame /\ maxTestFrame <= maxValidFrame
                        /\ maxValidFrame <= Len(data)
    /\ cpc = "done" =>
          /\ Len(routed) = Len(data)
          /\ \E a \in 0..Len(data) : \E b \in a..Len(data) :
                \A c \in 0..(Len(data) - 1) :
                   routed[c + 1].part =
                      IF data[c + 1].label.text \notin labels THEN "dropped"
                      ELSE IF c < a THEN "test"
                      ELSE IF c < b THEN "val"
                      ELSE "train"
          /\ BucketsMatchRouting

\* C1's case: a finished call in which the filter dropped a row and the
\* validation and training partitions each got one.
C1_Witness ==
    /\ cpc = "done"
    /\ \A p \in {"dropped", "val", "train"} : CountersOf(p) # {}

IsScenario == data = ScenarioData

C3_NoLabelsCompletes ==
    (labels = None /\ cpc \in {"done", "error"}) =>
        /\ cpc = "done"
        /\ CountersOf("dropped") = {}
        /\ DOMAIN testData = 0..(samplingRate - 1)

\* The bounds of the claim's border interval on one axis.
BorderLow(max, scale, k) == FDiv(max, FMul(Flt(scale), Flt(k)))

BorderHigh(max, scale, k) == FSub(max, FDiv(max, FMul(Flt(scale), Flt(k))))

InsideBoth(row) ==
    /\ FGe(row[3], BorderLow(maxX, config.annotationXScale, config.fractionToRemove))
    /\ FLe(row[3], BorderHigh(maxX, config.annotationXScale, config.fractionToRemove))
    /\ FGe(row[4], BorderLow(maxY, config.annotationYScale, config.fractionToRemove))
    /\ FLe(row[4], BorderHigh(maxY, config.annotationYScale, config.fractionToRemove))

\* C9: in the returned training and validation buckets every row has x in
\* [maxX/(xScale*k), maxX - maxX/(xScale*k)] and y in the same interval of
\* maxY and yScale, and the bucket holds, in order, exactly the rows the
\* scan assigned to it that lie inside both intervals.
C9_BorderFilter ==
    cpc = "done" =>
        \A i \in 0..(samplingRate - 1) :
            /\ \A j \in 1..Len(trainingData[i]) : InsideBoth(trainingData[i][j])
            /\ \A j \in 1..Len(validationData[i]) : InsideBoth(validationData[i][j])
            /\ trainingData[i] = SelectSeq(scanned.trainingData[i], InsideBoth)
            /\ validationData[i] = SelectSeq(scanned.validationData[i], InsideBoth)

\* C9's case: the filter removed a training row on the y axis alone, and a
\* validation row was retained.
C9_Witness ==
    /\ cpc = "done"
    /\ \E i \in 0..(samplingRate - 1) : \E j \in 1..Len(scanned.trainingData[i]) :
          LET row == scanned.trainingData[i][j]
          IN  /\ ~InsideBoth(row)
              /\ FGe(row[3], BorderLow(maxX, config.annotationXScale,
                                       config.fractionToRemove))
              /\ FLe(row[3], BorderHigh(maxX, config.annotationXScale,
                                        config.fractionToRemove))
    /\ \E i \in 0..(samplingRate - 1) : Len(validationData[i]) > 0

\* The rows of the input by index, and those the category filter keeps.
AllRows == 1..Len(data)

KeptRows == { i \in AllRows : Kept(rowConversion(data[i]), labels) }

\* m is the running maximum, started at 0, of coordinate k (3: x, 4: y) of
\* the converted rows whose index is in idx.
IsRunningMax(m, idx, k) ==
    /\ \A i \in idx : ~FGt(rowConversion(data[i])[k], m)
    /\ m = Flt(0) \/ \E i \in idx : m = rowConversion(data[i])[k]

\* C14 as stated: the maxX and maxY the border computation uses are the
\* maxima over the rows that pass the category filter only.
C14_MaximaOverKeptRows ==
    cpc = "done" =>
        /\ IsRunningMax(maxX, KeptRows, 3)
        /\ IsRunningMax(maxY, KeptRows, 4)

\* C14: the maxX and maxY the border computation uses are the maxima,
\* started at 0, of the unscaled x and y over every row of the input, the
\* rows the category filter discards included.
C14_MaximaOverAllRows ==
    cpc = "done" =>
        /\ IsRunningMax(maxX, AllRows, 3)
        /\ IsRunningMax(maxY, AllRows, 4)

\* C14's case: a returned call whose maxX comes from a row the category
\* filter discarded, and which kept another row.
C14_Witness ==
    /\ cpc = "done"
    /\ KeptRows # {}
    /\ ~IsRunningMax(maxX, KeptRows, 3)
    /\ \E i \in AllRows \ KeptRows : maxX = rowConversion(data[i])[3]

(* ------------------------------------------------------------------ *)
(* Properties of createTrainingData                                   *)
(* ------------------------------------------------------------------ *)

\* The persisted fingerprint says the run that wrote it completed.
Complete(f) == f # <<>> /\ f[1].complete

\* The fingerprint invocation p asks for, as a completed run persists it.
Requested(p) == json_dump([new_config[p] EXCEPT !.complete = TRUE])

\* p was called on a destination whose persisted fingerprint was the
\* requested one, marked complete.
StartedSame(p) ==
    pc[p] # "idle" /\ start[p].cfgFile # <<>> /\ start[p].cfgFile[1] = Requested(p)

\* p was called on a destination holding a fingerprint that differs from the
\* requested one or is not marked complete.
StartedStale(p) ==
    pc[p] # "idle" /\ start[p].cfgFile # <<>> /\ start[p].cfgFile[1] # Requested(p)

\* p returned by the skip path.
Skipped(p) ==
    pc[p] = "returned" /\ stdout[p] = << "No new config, skipping data creation" >>

Regenerated(p) == pc[p] = "returned" /\ ~Skipped(p)

\* Every partition x bucket of recording v under the arguments c of a call,
\* with the rows convertData gives it.
BucketsOf(v, c) ==
    LET r == ConvertVideo(v, c)
        offsets == 0..(c.samplingRate - 1)
    IN  IF r.raised # "nothing" THEN {}
        ELSE { [v |-> v, part |-> "train", label |-> "", i |-> i,
                rows |-> r.trainingData[i]] : i \in offsets }
             \cup { [v |-> v, part |-> "val", label |-> "", i |-> i,
                     rows |-> r.validationData[i]] : i \in offsets }
             \cup UNION { { [v |-> v, part |-> "test", label |-> l, i |-> i,
                             rows |-> r.testData[l][i]] : i \in offsets } :
                          l \in c.labels }

AllBuckets(c) == UNION { BucketsOf(v, c) : v \in 1..Len(Videos) }

PathOf(b) == BucketPath(b.v, b.part, b.label, b.i)

\* Some numeric value of the bucket is undefined.
AnyUndefined(rows) == \E j \in 1..Len(rows) : \E k \in 2..4 : rows[j][k] = NaN

\* The bucket files a call with arguments c generates.
Generates(c) ==
    LET good == { b \in AllBuckets(c) : ~AnyUndefined(b.rows) }
    IN  [q \in { PathOf(b) : b \in good } |->
            SaveTxt((CHOOSE b \in good : PathOf(b) = q).rows)]

Rank(part) == IF part = "train" THEN 1 ELSE IF part = "test" THEN 2 ELSE 3

\* The loops of p are past bucket b.
Past(p, b) ==
    IF pc[p] = "finish" \/ Regenerated(p) THEN TRUE
    ELSE IF pc[p] \in {"train", "test", "val"}
    THEN \/ b.v < video[p]
         \/ b.v = video[p] /\ b.i < bucket[p]
         \/ b.v = video[p] /\ b.i = bucket[p] /\ Rank(b.part) < Rank(pc[p])
    ELSE IF pc[p] \in {"convert", "mkdirs"} THEN b.v < video[p]
    ELSE FALSE

Diagnostics(p) ==
    Len(SelectSeq(stdout[p], LAMBDA m : m \in {"Invalid Training Data",
                                              "Invalid Test Data",
                                              "Invalid Validation Data"}))

DestinationAsAtCall(p) ==
    /\ cfgFile = start[p].cfgFile
    /\ outputExists = start[p].outputExists
    /\ dirs = start[p].dirs
    /\ files = start[p].files

\* C4: an invocation that finds the persisted fingerprint identical to the
\* one it builds and marked complete changes nothing in the destination
\* (no write, no deletion, no directory), and returns by the skip path; so
\* does every repetition of it.
C4_IdempotentSkip ==
    \A p \in Procs :
        StartedSame(p) =>
            /\ DestinationAsAtCall(p)
            /\ ops[p] = 0
            /\ pc[p] \in {"check", "returned", "killed"}
            /\ pc[p] = "returned" => Skipped(p)

\* C4's case: a later invocation skips over a generated output.
C4_Witness ==
    /\ runs >= 3
    /\ StartedSame(1) /\ Skipped(1)
    /\ files # <<>>
    /\ start[1].files = files

\* C5 as stated: an invocation against a destination whose persisted
\* fingerprint differs from the requested one, or is not complete, ends
\* with every bucket file regenerated and the requested fingerprint
\* persisted as complete.
C5_ForcedRegeneration ==
    \A p \in Procs :
        (StartedStale(p) /\ call[p].labels # None /\ pc[p] \in {"returned", "raised"}) =>
            /\ pc[p] = "returned"
            /\ cfgFile = << Requested(p) >>
            /\ files = Generates(call[p])

\* C6: once an invocation that regenerates has changed the destination, the
\* persisted fingerprint is not complete until the invocation returns, and
\* it returns only after every bucket file is written; so the invocation
\* that follows an interrupted regeneration does not skip.
C6_CompleteIsLast ==
    \A p \in Procs :
        /\ (ops[p] > 0 /\ pc[p] # "returned") => ~Complete(cfgFile)
        /\ Regenerated(p) =>
              /\ Complete(cfgFile)
              /\ \A b \in AllBuckets(call[p]) :
                    ~AnyUndefined(b.rows) => PathOf(b) \in DOMAIN files
        /\ start[p].afterKill => ~Skipped(p)

\* C6's case: a regeneration was interrupted after it wrote bucket files,
\* and the next invocation has run to its end.
C6_Witness ==
    /\ start[1].afterKill
    /\ start[1].files # <<>>
    /\ pc[1] = "raised"

\* C7 as stated (its conclusion): when an invocation skips on a matching
\* complete fingerprint, the bucket files on disk are those the invocation
\* would have generated.
C7_SkipLeavesOwnOutput ==
    \A p \in Procs : Skipped(p) => files = Generates(call[p])

\* C8: a bucket with an undefined value gets no file and one diagnostic,
\* every bucket without one gets its whole file, whatever the other buckets
\* hold, and the run ends with the fingerprint marked complete.
C8_UndefinedBucketSkipped ==
    \A p \in Procs :
        (pc[p] # "idle" /\ start[p].files = <<>> /\ call[p].labels # None) =>
            /\ \A b \in AllBuckets(call[p]) :
                  /\ PathOf(b) \in DOMAIN files =>
                        ~AnyUndefined(b.rows) /\ files[PathOf(b)] = SaveTxt(b.rows)
                  /\ (Past(p, b) /\ ~AnyUndefined(b.rows)) => PathOf(b) \in DOMAIN files
            /\ pc[p] \notin {"raised", "killed"} =>
                  Diagnostics(p) =
                      Cardinality({ b \in AllBuckets(call[p]) :
                                       Past(p, b) /\ AnyUndefined(b.rows) })
            /\ Regenerated(p) => Complete(cfgFile)

\* C8's case: a finished run that skipped a training and a held-out bucket
\* and wrote the others.
C8_Witness ==
    /\ Regenerated(1)
    /\ \E b \in AllBuckets(call[1]) : b.part = "train" /\ AnyUndefined(b.rows)
    /\ \E b \in AllBuckets(call[1]) : b.part = "test" /\ AnyUndefined(b.rows)
    /\ \E b \in AllBuckets(call[1]) : b.part = "val" /\ b.rows # <<>>
    /\ Diagnostics(1) >= 2
    /\ files # <<>>

(* ------------------------------------------------------------------ *)
(* Properties of two interleaved createTrainingData invocations       *)
(* ------------------------------------------------------------------ *)

Other(p) == CHOOSE q \in Procs : q # p

\* p has passed the skip check and has bucket files left to write.
MidRegeneration(p) == pc[p] \in {"delete", "convert", "mkdirs", "train", "test", "val"}

\* The persisted fingerprint is the complete one p wrote on returning, and
\* the bucket files on disk are not the output of p's call.
CompleteOverForeignOutput(p) ==
    /\ Regenerated(p)
    /\ cfgFile = << Requested(p) >>
    /\ files # Generates(call[p])

Min(a, b) == IF a <= b THEN a ELSE b
Max(a, b) == IF a >= b THEN a ELSE b

\* The learned transform of the Feature Tensor passed in.
Intermediate == Conv2d(conv, x0)

GcnEnded == gpc \in {"returned", "raised"}

StEnded == st_pc \in {"returned", "raised"}

\* The call the claim is about: temporal kernel odd, stride 1, and an
\* Adjacency Tensor whose first axis is the kernel's second entry.
StCase ==
    /\ StEnded
    /\ st_args.kernel_size[1] % 2 = 1
    /\ st_args.stride = 1
    /\ st_A[1] = st_args.kernel_size[2]

StExpected(t) == << st_x0[1], st_args.out_channels, t, st_x0[4] >>

\* BatchNorm2d in training mode meets a tensor with one value a channel.
StSingleValue ==
    st_args.training /\ st_x0[1] * st_x0[3] * st_x0[4] = 1

NetEnded == net_pc \in {"returned", "raised"}

\* The Feature Tensor passed in has shape (batch, input_feat, seq_len, node).
NetInputAsDeclared ==
    /\ net_pc # "idle"
    /\ net_v0[2] = net_args.input_feat
    /\ net_v0[3] = net_args.seq_len

\* C12 as stated: the first result of forward has shape
\* (batch, pred_seq_len, output_feat, node).
C12_TimeBeforeChannel ==
    (net_pc = "returned" /\ NetInputAsDeclared) =>
        net_v = << net_v0[1], net_args.pred_seq_len, net_args.output_feat, net_v0[4] >>

\* C12: the first result of forward has shape
\* (batch, output_feat, pred_seq_len, node), the parameter channel before
\* the future time step, and the second is a (seq_len, node, node) tensor;
\* the call returns for every (batch, input_feat, seq_len, node) Feature
\* Tensor with a (seq_len, node, node) Adjacency Tensor, an odd kernel_size
\* and, in training mode, more than one value a channel.
C12_ChannelBeforeTime ==
    /\ (net_pc = "returned" /\ NetInputAsDeclared) =>
          /\ net_v = << net_v0[1], net_args.output_feat, net_args.pred_seq_len,
                        net_v0[4] >>
          /\ net_a = << net_args.seq_len, net_v0[4], net_v0[4] >>
    /\ ( /\ NetEnded
         /\ NetInputAsDeclared
         /\ net_a[1] = net_args.seq_len
         /\ net_args.kernel_size % 2 = 1
         /\ ~(net_args.training /\ net_v0[1] * net_v0[3] * net_v0[4] = 1) )
       => net_pc = "returned"

\* C12's case: a call returned a result whose channel and time axes have
\* different lengths, after residual layers ran.
C12_Witness ==
    /\ net_pc = "returned"
    /\ NetInputAsDeclared
    /\ net_args.n_txpcnn = 3
    /\ net_args.output_feat = 2 /\ net_args.pred_seq_len = 3
    /\ net_v = << net_v0[1], 2, 3, net_v0[4] >>

\* The temporal-projection layers the constructor builds.
ConstructedTp ==
    { << "tpcnns", j >> : j \in 0..(Len(net.tpcnns) - 1) } \cup { << "tpcnn_ouput", 0 >> }

TimesApplied(layer) ==
    Cardinality({ i \in 1..Len(net_applied) :
                     << net_applied[i].list, net_applied[i].index >> = layer })

\* C13 as stated: a returned call went through exactly n_stgcnn blocks and
\* then exactly n_txpcnn temporal-projection layers: a first one with
\* activation and no residual, n_txpcnn - 2 residual ones, a final one with
\* neither; and every temporal-projection layer built was applied once.
C13_StageSequence ==
    net_pc = "returned" =>
        LET N == net_args.n_stgcnn
            M == net_args.n_txpcnn
        IN  /\ Len(net_applied) = N + M
            /\ \A i \in 1..N : net_applied[i].list = "st_gcns" /\ net_applied[i].index = i - 1
            /\ \A i \in (N + 1)..Len(net_applied) : net_applied[i].list # "st_gcns"
            /\ net_applied[N + 1].act /\ ~net_applied[N + 1].residual
            /\ \A i \in (N + 2)..(N + M - 1) : net_applied[i].residual
            /\ ~net_applied[N + M].act /\ ~net_applied[N + M].residual
            /\ \A layer \in ConstructedTp : TimesApplied(layer) = 1

====
